---- MODULE Spec2Model ----
(***************************************************************************)
(* Model of the realtime audio streaming and conversation-turn engine of   *)
(* src/App.tsx: the playback scheduler (playAudioChunk / stopAllAudio),    *)
(* the transcript aggregation (updateLiveMessage / finalizeMessage), the   *)
(* live session lifecycle (connectLive / disconnectLive and the transport  *)
(* callbacks) and the two-step text exchange (sendTextMessage).            *)
(*                                                                         *)
(* Every handler of the component runs to completion on the single         *)
(* JavaScript thread, so one action is one handler run or one continuation *)
(* after an await.  Time is counted in ticks of the audio clock.           *)
(***************************************************************************)
EXTENDS Integers, Sequences, FiniteSets, TLC

\* ---------------------------------------------------------------- bounds
MaxTime == 2         \* the audio clock ctx.currentTime runs over 0..MaxTime
MaxDur == 2          \* audio chunk durations are 1 or MaxDur ticks
MaxChunks == 2       \* audio chunks handed to playAudioChunk in one run
MaxText == 2         \* length of a transcript buffer, in deltas
MaxMessages == 3     \* length of the message list
MaxAttempts == 1     \* calls of connectLive that reach getUserMedia
LifeChunks == 1      \* live audio chunks in the lifecycle specification
LifeTime == 1        \* the audio clock's range in the lifecycle specification
MaxExchanges == 1    \* calls of sendTextMessage that pass the API-key check
MaxDate == 1         \* Date.now() runs over 0..MaxDate
TwoAttempts == 2     \* calls of connectLive in the restart specification
BlockLen == 2        \* samples in one captured block (4096 in the code)

\* ------------------------------------------------------------- constants
Null == "null"
Roles == {"user", "model"}
IDLE_FRONT == "IDLE_FRONT"
LISTENING_SIDE == "LISTENING_SIDE"
THINKING_GHOST == "THINKING_GHOST"
Deltas == 1..MaxText                       \* text deltas: the k-th delta of a buffer is k
Durs == {1, MaxDur}
ErrMessages == {"", "quota exceeded"}      \* e.message of a failed request

VARIABLES
  apiKey,              \* API_KEY is non-empty
  isLiveConnected, isMicOn, avatarPose, error, isLoading,   \* React state
  messages,            \* React state: the ChatMessage list
  audioContextRef,     \* "null" | "running"
  nextStartTime,       \* nextStartTimeRef.current
  audioSources,        \* audioSourcesRef.current: the active set of scheduled units
  streamRef,           \* 0 (null) or the attempt whose MediaStream is held
  scriptProcessorRef,  \* 0 (null) or the attempt whose ScriptProcessorNode is held
  sessionPromiseRef,   \* 0 (null) or the attempt whose session promise is held
  idleTimeoutRef,      \* "null" | "pending" | "stale" (handle of a fired or cleared timer)
  currentInputTrans,   \* currentInputTransRef.current
  currentOutputTrans,  \* currentOutputTransRef.current
  now,                 \* ctx.currentTime
  dateNow,             \* Date.now()
  attempts,            \* one record per connectLive call: its stream, processor and channel
  pendingDecodes,      \* playAudioChunk calls suspended at `await decodeAudioData`; the field
                       \* stale is history: "cancelled" / "interrupted" once stopAllAudio ran
                       \* (for a teardown / for an interrupted event) after the chunk arrived
  exchanges,           \* one entry per sendTextMessage call: where it is suspended
  timersPending,       \* number of setTimeout callbacks not yet fired or cleared
  chunkSeq,            \* arrival sequence number of the last chunk handed to playAudioChunk
  sentBlocks           \* history, per attempt's session: "none", "queued" (a captured block
                       \* waits in a then() of its promise) or "sent" (a block was sent on it)

reactVars == <<isLiveConnected, isMicOn, avatarPose, error, isLoading, messages>>
audioVars == <<audioContextRef, nextStartTime, audioSources, now, pendingDecodes,
               chunkSeq>>
sessionVars == <<streamRef, scriptProcessorRef, sessionPromiseRef, attempts, sentBlocks>>
transVars == <<currentInputTrans, currentOutputTrans>>
vars == <<apiKey, reactVars, audioVars, sessionVars, transVars, idleTimeoutRef,
          timersPending, dateNow, exchanges>>

\* --------------------------------------------------------------- helpers
\* A ChatMessage.  updateLiveMessage ids are Date.now().toString(); addMessage
\* appends Math.random() to it, modelled by a suffix r > 0 that no other
\* message of the list carries.
Message(id, role, text, isFinal) ==
  [id |-> id, role |-> role, text |-> text, isFinal |-> isFinal]

LiveId(t) == [t |-> t, r |-> 0]
RandId(t, prev) == [t |-> t, r |-> Len(prev) + 1]

\* Mutant of addMessage: the new message is put in front of the list.
addMessageAtFront(prev, role, text, isFinal, id) ==
  <<Message(id, role, text, isFinal)>> \o prev

\* addMessage (App.tsx 390-392)
addMessage(prev, role, text, isFinal, id) ==
  Append(prev, Message(id, role, text, isFinal))

\* Mutant of updateLiveMessage: the last message is rewritten whenever its
\* role matches, finalized or not.
updateLiveMessageOverFinal(prev, role, text, t) ==
  IF /\ Len(prev) > 0
     /\ prev[Len(prev)].role = role
  THEN [prev EXCEPT ![Len(prev)].text = text]
  ELSE Append(prev, Message(LiveId(t), role, text, FALSE))

\* updateLiveMessage (App.tsx 394-405): the updater passed to setMessages
updateLiveMessage(prev, role, text, t) ==
  IF /\ Len(prev) > 0
     /\ prev[Len(prev)].role = role
     /\ ~prev[Len(prev)].isFinal
  THEN [prev EXCEPT ![Len(prev)].text = text]
  ELSE Append(prev, Message(LiveId(t), role, text, FALSE))

\* finalizeMessage (App.tsx 407-417): the updater passed to setMessages
finalizeMessage(prev, role, text) ==
  IF /\ Len(prev) > 0
     /\ prev[Len(prev)].role = role
     /\ ~prev[Len(prev)].isFinal
  THEN [prev EXCEPT ![Len(prev)].text = text, ![Len(prev)].isFinal = TRUE]
  ELSE prev

\* Mutant of ScheduleStart: the chunk starts at the current time, whatever
\* is already queued.
ScheduleStartIgnoringQueue(currentTime, nst) == currentTime

\* playAudioChunk, "Schedule playback" (App.tsx 156-161): the start time
ScheduleStart(currentTime, nst) ==
  IF nst < currentTime THEN currentTime ELSE nst

Unit(c, start) ==
  [seq |-> c.seq, start |-> start, end |-> start + c.dur, stale |-> c.stale]

\* History: stopAllAudio ran while the decode of chunk c was pending.
Mark(c, how) == [c EXCEPT !.stale = IF @ = "interrupted" THEN @ ELSE how]

\* Mutant of stopAllAudio: the sources are stopped and the set cleared, the
\* clock is left as it was.
stopAllAudioKeepingClock(s) ==
  [s EXCEPT !.audioSources = {},
            !.pendingDecodes = {Mark(c, "cancelled") : c \in s.pendingDecodes}]

\* stopAllAudio (App.tsx 181-187) on a record holding the scheduler's state:
\* every active source is stopped, the set cleared, the clock reset.
stopAllAudio(s) ==
  [s EXCEPT !.audioSources = {}, !.nextStartTime = 0,
            !.pendingDecodes = {Mark(c, "cancelled") : c \in s.pendingDecodes}]

\* Mutant of resetIdleTimer: a new timer is armed, the held one is not cleared.
resetIdleTimerWithoutClear(ref, pending) == pending + 1

\* resetIdleTimer (App.tsx 383-388): clearTimeout of the held handle, then a
\* new setTimeout.  Gives the number of timers pending afterwards.
resetIdleTimer(ref, pending) ==
  (IF ref = "pending" THEN pending - 1 ELSE pending) + 1

\* Mutant of disconnectLive: the handles are not cleared after the release.
disconnectLiveKeepingHandles(s) ==
  LET a1 == IF s.streamRef # 0
            THEN [s.attempts EXCEPT ![s.streamRef].stream = "stopped",
                                    ![s.streamRef].trackStops = @ + 1]
            ELSE s.attempts
      a2 == IF s.scriptProcessorRef # 0
            THEN [a1 EXCEPT ![s.scriptProcessorRef].proc = "disconnected",
                            ![s.scriptProcessorRef].procDiscs = @ + 1]
            ELSE a1
      a3 == [k \in DOMAIN a2 |-> [a2[k] EXCEPT !.torn = TRUE]]
      s2 == stopAllAudio([s EXCEPT !.attempts = a3])
  IN [s2 EXCEPT !.isLiveConnected = FALSE, !.isMicOn = FALSE,
                !.avatarPose = IDLE_FRONT]

\* Mutant of disconnectLive: the scheduled audio is left alone.
disconnectLiveKeepingAudio(s) ==
  LET a1 == IF s.streamRef # 0
            THEN [s.attempts EXCEPT ![s.streamRef].stream = "stopped",
                                    ![s.streamRef].trackStops = @ + 1]
            ELSE s.attempts
      a2 == IF s.scriptProcessorRef # 0
            THEN [a1 EXCEPT ![s.scriptProcessorRef].proc = "disconnected",
                            ![s.scriptProcessorRef].procDiscs = @ + 1]
            ELSE a1
      a3 == [k \in DOMAIN a2 |-> [a2[k] EXCEPT !.torn = TRUE]]
  IN [s EXCEPT !.attempts = a3, !.streamRef = 0, !.scriptProcessorRef = 0,
               !.isLiveConnected = FALSE, !.isMicOn = FALSE,
               !.avatarPose = IDLE_FRONT]

\* disconnectLive (App.tsx 367-381) on a record holding the state it touches.
disconnectLive(s) ==
  LET a1 == IF s.streamRef # 0
            THEN [s.attempts EXCEPT ![s.streamRef].stream = "stopped",
                                    ![s.streamRef].trackStops = @ + 1]
            ELSE s.attempts
      a2 == IF s.scriptProcessorRef # 0
            THEN [a1 EXCEPT ![s.scriptProcessorRef].proc = "disconnected",
                            ![s.scriptProcessorRef].procDiscs = @ + 1]
            ELSE a1
      a3 == [k \in DOMAIN a2 |-> [a2[k] EXCEPT !.torn = TRUE]]
      s1 == [s EXCEPT !.attempts = a3, !.streamRef = 0, !.scriptProcessorRef = 0]
      s2 == stopAllAudio(s1)
  IN [s2 EXCEPT !.isLiveConnected = FALSE, !.isMicOn = FALSE,
                !.avatarPose = IDLE_FRONT]

\* The part of the state disconnectLive reads or writes.
TeardownView ==
  [attempts |-> attempts, streamRef |-> streamRef,
   scriptProcessorRef |-> scriptProcessorRef, audioSources |-> audioSources,
   nextStartTime |-> nextStartTime, pendingDecodes |-> pendingDecodes,
   isLiveConnected |-> isLiveConnected, isMicOn |-> isMicOn,
   avatarPose |-> avatarPose]

SetTeardownView(s) ==
  /\ attempts' = s.attempts
  /\ streamRef' = s.streamRef
  /\ scriptProcessorRef' = s.scriptProcessorRef
  /\ audioSources' = s.audioSources
  /\ nextStartTime' = s.nextStartTime
  /\ pendingDecodes' = s.pendingDecodes
  /\ isLiveConnected' = s.isLiveConnected
  /\ isMicOn' = s.isMicOn
  /\ avatarPose' = s.avatarPose

\* A LiveServerMessage, reduced to the fields onmessage reads.
Texts == {<<>>} \cup {<<d>> : d \in Deltas}
ServerMessages ==
  [audio : {0} \cup Durs, out : Texts, in : Texts,
   turnComplete : BOOLEAN, interrupted : BOOLEAN]

NewAttempt ==
  [pc |-> "gum", stream |-> "none", trackStops |-> 0, proc |-> "none",
   procDiscs |-> 0, handler |-> FALSE, torn |-> FALSE]

\* ------------------------------------------------------------------ Init
\* The state after the first render of App: useState / useRef initial values.
Init ==
  /\ apiKey \in BOOLEAN
  /\ isLiveConnected = FALSE
  /\ isMicOn = FALSE
  /\ avatarPose = IDLE_FRONT
  /\ error = Null
  /\ isLoading = FALSE
  /\ messages = <<>>
  /\ audioContextRef = "null"
  /\ nextStartTime = 0
  /\ audioSources = {}
  /\ streamRef = 0
  /\ scriptProcessorRef = 0
  /\ sessionPromiseRef = 0
  /\ idleTimeoutRef = "null"
  /\ currentInputTrans = <<>>
  /\ currentOutputTrans = <<>>
  /\ now = 0
  /\ dateNow = 0
  /\ attempts = <<>>
  /\ pendingDecodes = {}
  /\ exchanges = <<>>
  /\ timersPending = 0
  /\ chunkSeq = 0
  /\ sentBlocks = <<>>

\* ------------------------------------------------------------- scheduler
\* An audio chunk handed to decodeAudioData: its arrival number, its
\* duration once decoded and the sendTextMessage call awaiting it (0: none).
Chunk(seq, dur, exch) == [seq |-> seq, dur |-> dur, exch |-> exch, stale |-> "no"]

\* playAudioChunk up to its await (App.tsx 139-149): ensureAudioContext, then
\* the chunk is handed to decodeAudioData.  exch is the sendTextMessage call
\* awaiting this playAudioChunk, 0 for a chunk of the live session.
playAudioChunk(s, dur, exch) ==
  [s EXCEPT !.audioContextRef = "running",
            !.chunkSeq = @ + 1,
            !.pendingDecodes =
                @ \cup {Chunk(s.chunkSeq + 1, dur, exch)}]

\* Mutant of FinishExchange: the finally block leaves the pose as it is.
FinishExchangeKeepingPose(i) ==
  /\ exchanges' = [exchanges EXCEPT ![i] = "done"]
  /\ isLoading' = FALSE
  /\ avatarPose' = avatarPose

\* The finally block of sendTextMessage (App.tsx 244-247) for exchange i.
FinishExchange(i) ==
  /\ exchanges' = [exchanges EXCEPT ![i] = "done"]
  /\ isLoading' = FALSE
  /\ avatarPose' = IDLE_FRONT

\* decodeAudioData (utils/audioUtils): the decode of a chunk handed to it
\* settles at some later time, which varies from chunk to chunk, so that any
\* pending decode may be the next to settle; it resolves or rejects.
DecodeSettles(c) == c \in pendingDecodes

\* decodeAudioData resolved: the rest of playAudioChunk (App.tsx 151-175).
\* When the chunk belongs to a text exchange the awaiting sendTextMessage
\* then runs its finally block.
DecodeDone(c) ==
  /\ DecodeSettles(c)
  /\ LET start == ScheduleStart(now, nextStartTime)
     IN /\ audioSources' = audioSources \cup {Unit(c, start)}
        /\ nextStartTime' = start + c.dur
  /\ pendingDecodes' = pendingDecodes \ {c}
  /\ timersPending' = resetIdleTimer(idleTimeoutRef, timersPending)
  /\ idleTimeoutRef' = "pending"
  /\ IF c.exch # 0
     THEN FinishExchange(c.exch)
     ELSE /\ avatarPose' = IDLE_FRONT
          /\ UNCHANGED <<exchanges, isLoading>>
  /\ UNCHANGED <<apiKey, isLiveConnected, isMicOn, error, messages, audioContextRef,
                 now, chunkSeq, sessionVars, transVars, dateNow>>

\* Mutant of DecodeFail: the catch also stops the audio and resets the clock.
DecodeFailResettingClock(c) ==
  /\ DecodeSettles(c)
  /\ pendingDecodes' = pendingDecodes \ {c}
  /\ nextStartTime' = 0
  /\ audioSources' = {}
  /\ IF c.exch # 0
     THEN FinishExchange(c.exch)
     ELSE UNCHANGED <<exchanges, isLoading, avatarPose>>
  /\ UNCHANGED <<apiKey, isLiveConnected, isMicOn, error, messages, audioContextRef,
                 now, chunkSeq, sessionVars, transVars, idleTimeoutRef,
                 timersPending, dateNow>>

\* decodeAudioData rejected: the catch of playAudioChunk (App.tsx 176-178).
DecodeFail(c) ==
  /\ DecodeSettles(c)
  /\ pendingDecodes' = pendingDecodes \ {c}
  /\ IF c.exch # 0
     THEN FinishExchange(c.exch)
     ELSE UNCHANGED <<exchanges, isLoading, avatarPose>>
  /\ UNCHANGED <<apiKey, isLiveConnected, isMicOn, error, messages, audioContextRef,
                 nextStartTime, audioSources, now, chunkSeq,
                 sessionVars, transVars, idleTimeoutRef, timersPending, dateNow>>

\* Mutant of Ended: when the last unit ends the playback clock is reset.
EndedResettingClock(u) ==
  /\ u \in audioSources
  /\ u.end <= now
  /\ audioSources' = audioSources \ {u}
  /\ nextStartTime' = IF audioSources = {u} THEN 0 ELSE nextStartTime
  /\ UNCHANGED <<apiKey, reactVars, audioContextRef, now, pendingDecodes,
                 chunkSeq, sessionVars, transVars,
                 idleTimeoutRef, timersPending, dateNow, exchanges>>

\* source.onended (App.tsx 170-175) of a unit that played to its end.
Ended(u) ==
  /\ u \in audioSources
  /\ u.end <= now
  /\ audioSources' = audioSources \ {u}
  /\ UNCHANGED <<apiKey, reactVars, audioContextRef, nextStartTime, now, pendingDecodes,
                 chunkSeq, sessionVars, transVars,
                 idleTimeoutRef, timersPending, dateNow, exchanges>>

\* The audio clock advances.
Tick ==
  /\ audioContextRef = "running"
  /\ now' = now + 1
  /\ UNCHANGED <<apiKey, reactVars, audioContextRef, nextStartTime, audioSources,
                 pendingDecodes, chunkSeq, sessionVars,
                 transVars, idleTimeoutRef, timersPending, dateNow, exchanges>>

\* The wall clock advances.
DateTick ==
  /\ dateNow' = dateNow + 1
  /\ UNCHANGED <<apiKey, reactVars, audioVars, sessionVars, transVars, idleTimeoutRef,
                 timersPending, exchanges>>

\* The callback armed by resetIdleTimer fires (App.tsx 385-387).
IdleTimerFires ==
  /\ timersPending > 0
  /\ timersPending' = timersPending - 1
  /\ idleTimeoutRef' = IF timersPending = 1 THEN "stale" ELSE idleTimeoutRef
  /\ avatarPose' = IDLE_FRONT
  /\ UNCHANGED <<apiKey, isLiveConnected, isMicOn, error, isLoading, messages,
                 audioVars, sessionVars, transVars, dateNow, exchanges>>

\* ------------------------------------------------------------- onmessage
\* The part of the state the onmessage callback reads or writes.
MessageView ==
  [messages |-> messages, currentOutputTrans |-> currentOutputTrans,
   currentInputTrans |-> currentInputTrans, audioSources |-> audioSources,
   nextStartTime |-> nextStartTime, avatarPose |-> avatarPose,
   pendingDecodes |-> pendingDecodes, chunkSeq |-> chunkSeq,
   audioContextRef |-> audioContextRef]

\* onmessage, audio part (App.tsx 311-314)
OnAudio(s, m) ==
  IF m.audio # 0 THEN playAudioChunk(s, m.audio, 0) ELSE s

\* onmessage, outputTranscription part (App.tsx 316-320)
OnOutputTrans(s, m, t) ==
  IF m.out # <<>>
  THEN LET buf == s.currentOutputTrans \o m.out
       IN [s EXCEPT !.currentOutputTrans = buf,
                    !.messages = updateLiveMessage(s.messages, "model", buf, t)]
  ELSE s

\* onmessage, inputTranscription part (App.tsx 322-326)
OnInputTrans(s, m, t) ==
  IF m.in # <<>>
  THEN LET buf == s.currentInputTrans \o m.in
       IN [s EXCEPT !.currentInputTrans = buf,
                    !.messages = updateLiveMessage(s.messages, "user", buf, t)]
  ELSE s

\* Mutant of OnTurnComplete: both roles are finalized whether or not their
\* buffers hold text.
OnTurnCompleteUnconditional(s, m) ==
  IF m.turnComplete
  THEN LET s1 == [s EXCEPT !.messages = finalizeMessage(
                                s.messages, "model", s.currentOutputTrans),
                           !.currentOutputTrans = <<>>]
       IN [s1 EXCEPT !.messages = finalizeMessage(
                           s1.messages, "user", s1.currentInputTrans),
                     !.currentInputTrans = <<>>]
  ELSE s

\* onmessage, turnComplete part (App.tsx 328-337)
OnTurnComplete(s, m) ==
  IF m.turnComplete
  THEN LET s1 == IF s.currentOutputTrans # <<>>
                 THEN [s EXCEPT !.messages = finalizeMessage(
                                     s.messages, "model", s.currentOutputTrans),
                                !.currentOutputTrans = <<>>]
                 ELSE s
       IN IF s1.currentInputTrans # <<>>
          THEN [s1 EXCEPT !.messages = finalizeMessage(
                                s1.messages, "user", s1.currentInputTrans),
                          !.currentInputTrans = <<>>]
          ELSE s1
  ELSE s

\* Mutant of OnInterrupted: the buffers of both roles are discarded.
OnInterruptedDiscardingBoth(s, m) ==
  IF m.interrupted
  THEN [stopAllAudio(s) EXCEPT
          !.currentOutputTrans = <<>>,
          !.currentInputTrans = <<>>,
          !.avatarPose = LISTENING_SIDE,
          !.pendingDecodes = {Mark(c, "interrupted") : c \in s.pendingDecodes}]
  ELSE s

\* onmessage, interrupted part (App.tsx 339-343)
OnInterrupted(s, m) ==
  IF m.interrupted
  THEN [stopAllAudio(s) EXCEPT
          !.currentOutputTrans = <<>>,
          !.avatarPose = LISTENING_SIDE,
          !.pendingDecodes = {Mark(c, "interrupted") : c \in s.pendingDecodes}]
  ELSE s

\* The whole onmessage callback (App.tsx 310-344), t being Date.now().
onmessage(s, m, t) ==
  OnInterrupted(OnTurnComplete(OnInputTrans(OnOutputTrans(OnAudio(s, m), m, t), m, t), m), m)

SetMessageView(s) ==
  /\ messages' = s.messages
  /\ currentOutputTrans' = s.currentOutputTrans
  /\ currentInputTrans' = s.currentInputTrans
  /\ audioSources' = s.audioSources
  /\ nextStartTime' = s.nextStartTime
  /\ avatarPose' = s.avatarPose
  /\ pendingDecodes' = s.pendingDecodes
  /\ chunkSeq' = s.chunkSeq
  /\ audioContextRef' = s.audioContextRef

\* The transport delivers message m on the channel of attempt k.
OnMessage(k, m) ==
  /\ k \in DOMAIN attempts
  /\ attempts[k].pc = "open"
  /\ SetMessageView(onmessage(MessageView, m, dateNow))
  /\ UNCHANGED <<apiKey, isLiveConnected, isMicOn, error, isLoading, now, sessionVars,
                 idleTimeoutRef, timersPending, dateNow, exchanges>>

\* ---------------------------------------------------------- live session
\* connectLive up to `await getUserMedia` (App.tsx 251-261).
connectLiveStart ==
  IF ~apiKey
  THEN UNCHANGED vars
  ELSE /\ isLoading' = TRUE
       /\ avatarPose' = THINKING_GHOST
       /\ error' = Null
       /\ audioContextRef' = "running"
       /\ attempts' = Append(attempts, NewAttempt)
       /\ sentBlocks' = Append(sentBlocks, "none")
       /\ UNCHANGED <<apiKey, isLiveConnected, isMicOn, messages, nextStartTime,
                      audioSources, now, pendingDecodes, chunkSeq, streamRef, scriptProcessorRef, sessionPromiseRef,
                      transVars, idleTimeoutRef, timersPending, dateNow, exchanges>>

\* A run of disconnectLive that is the whole handler.
DisconnectLive ==
  /\ SetTeardownView(disconnectLive(TeardownView))
  /\ UNCHANGED <<apiKey, error, isLoading, messages, audioContextRef, now, chunkSeq, sessionPromiseRef, sentBlocks,
                 transVars, idleTimeoutRef, timersPending, dateNow, exchanges>>

\* handleMicToggle (App.tsx 419-425), bound to the power button (disabled
\* while isLoading, App.tsx 523-525) and to the mic button of Chat, which App
\* renders with isConnected={true} and therefore never disables.
HandleMicToggle ==
  IF isMicOn THEN DisconnectLive ELSE connectLiveStart

\* getUserMedia resolved: connectLive from the await to ai.live.connect
\* (App.tsx 261-357).  The session promise is stored, not awaited.
GetUserMediaResolved(k) ==
  /\ k \in DOMAIN attempts
  /\ attempts[k].pc = "gum"
  /\ streamRef' = k
  /\ scriptProcessorRef' = k
  /\ sessionPromiseRef' = k
  /\ attempts' = [attempts EXCEPT ![k].pc = "connecting", ![k].stream = "live",
                                  ![k].proc = "connected"]
  /\ UNCHANGED <<apiKey, reactVars, audioVars, sentBlocks, transVars, idleTimeoutRef,
                 timersPending, dateNow, exchanges>>

\* getUserMedia rejected: the catch of connectLive (App.tsx 359-364).
GetUserMediaRejected(k) ==
  /\ k \in DOMAIN attempts
  /\ attempts[k].pc = "gum"
  /\ attempts' = [attempts EXCEPT ![k].pc = "failed"]
  /\ error' = "Could not access microphone or connect."
  /\ isLoading' = FALSE
  /\ avatarPose' = IDLE_FRONT
  /\ UNCHANGED <<apiKey, isLiveConnected, isMicOn, messages, audioVars, streamRef,
                 scriptProcessorRef, sessionPromiseRef, sentBlocks, transVars,
                 idleTimeoutRef, timersPending, dateNow, exchanges>>

\* callbacks.onopen (App.tsx 285-309): the channel of attempt k opened.  The
\* session promise resolves with it, and the blocks waiting in its then()
\* callbacks (App.tsx 296-298) are sent.
OnOpen(k) ==
  /\ k \in DOMAIN attempts
  /\ attempts[k].pc = "connecting"
  /\ attempts' = [attempts EXCEPT ![k].pc = "open", ![k].handler = TRUE]
  /\ sentBlocks' = [sentBlocks EXCEPT ![k] = IF @ = "queued" THEN "sent" ELSE @]
  /\ isLiveConnected' = TRUE
  /\ isMicOn' = TRUE
  /\ isLoading' = FALSE
  /\ avatarPose' = IDLE_FRONT
  /\ UNCHANGED <<apiKey, error, messages, audioVars, streamRef, scriptProcessorRef,
                 sessionPromiseRef, transVars, idleTimeoutRef,
                 timersPending, dateNow, exchanges>>

\* callbacks.onclose (App.tsx 345-350): the transport closed the channel,
\* on its own or after an error.
OnClose(k) ==
  /\ k \in DOMAIN attempts
  /\ attempts[k].pc \in {"open", "closing"}
  /\ attempts' = [attempts EXCEPT ![k].pc = "closed"]
  /\ isLiveConnected' = FALSE
  /\ isMicOn' = FALSE
  /\ avatarPose' = IDLE_FRONT
  /\ UNCHANGED <<apiKey, error, isLoading, messages, audioVars, streamRef,
                 scriptProcessorRef, sessionPromiseRef, sentBlocks, transVars,
                 idleTimeoutRef, timersPending, dateNow, exchanges>>

\* callbacks.onerror (App.tsx 351-355): the transport reports an error, while
\* the channel is opening (the open failed) or once it is open.
OnError(k) ==
  /\ k \in DOMAIN attempts
  /\ attempts[k].pc \in {"connecting", "open"}
  /\ LET s == disconnectLive(TeardownView)
     IN SetTeardownView([s EXCEPT !.attempts[k].pc = "closing"])
  /\ error' = "Live session disconnected."
  /\ UNCHANGED <<apiKey, isLoading, messages, audioContextRef, now,
                 chunkSeq, sessionPromiseRef, sentBlocks, transVars,
                 idleTimeoutRef, timersPending, dateNow, exchanges>>

\* processor.onaudioprocess (App.tsx 292-308) of attempt k for one captured
\* block; speaking is whether the block's RMS exceeds the threshold.  The
\* block is sent on the session held by sessionPromiseRef: at once when it is
\* open, when its promise resolves while it is opening, never when it is over.
AudioProcess(k, speaking) ==
  /\ k \in DOMAIN attempts
  /\ attempts[k].handler
  /\ attempts[k].proc = "connected"
  /\ sentBlocks' =
       IF sessionPromiseRef = 0 THEN sentBlocks
       ELSE IF attempts[sessionPromiseRef].pc = "open"
       THEN [sentBlocks EXCEPT ![sessionPromiseRef] = "sent"]
       ELSE IF attempts[sessionPromiseRef].pc = "connecting"
               /\ sentBlocks[sessionPromiseRef] = "none"
       THEN [sentBlocks EXCEPT ![sessionPromiseRef] = "queued"]
       ELSE sentBlocks
  /\ IF speaking
     THEN /\ avatarPose' = LISTENING_SIDE
          /\ timersPending' = resetIdleTimer(idleTimeoutRef, timersPending)
          /\ idleTimeoutRef' = "pending"
     ELSE UNCHANGED <<avatarPose, timersPending, idleTimeoutRef>>
  /\ UNCHANGED <<apiKey, isLiveConnected, isMicOn, error, isLoading, messages,
                 audioVars, streamRef, scriptProcessorRef, sessionPromiseRef, attempts,
                 transVars, dateNow, exchanges>>

\* Samples of a captured block, in hundredths of full scale, at and around
\* the threshold of 0.02.
Samples == {-3, 0, 2}
Blocks == [1..BlockLen -> Samples]

RECURSIVE SumSquares(_, _)
\* The loop of the "Simple VAD" (App.tsx 301-302) over the first n samples.
SumSquares(inputData, n) ==
  IF n = 0 THEN 0
  ELSE SumSquares(inputData, n - 1) + inputData[n] * inputData[n]

\* Mutant of IsSpeaking: a block at the threshold counts as speech.
IsSpeakingAtThreshold(inputData) ==
  SumSquares(inputData, Len(inputData)) >= 2 * 2 * Len(inputData)

\* "Simple VAD" (App.tsx 300-304): rms = sqrt(sum / length) > 0.02, which for
\* samples in hundredths is sum > 2 * 2 * length.
IsSpeaking(inputData) ==
  SumSquares(inputData, Len(inputData)) > 2 * 2 * Len(inputData)

\* processor.onaudioprocess (App.tsx 292-308) of attempt k for the captured
\* block inputData.
onaudioprocess(k, inputData) == AudioProcess(k, IsSpeaking(inputData))

\* ---------------------------------------------------------- text exchange
\* handleSendText / sendTextMessage up to the first generateContent
\* (App.tsx 192-217, 427-430).  `await disconnectLive()` resumes in a
\* microtask, before any other event is handled.
SendTextMessage(text) ==
  IF ~apiKey
  THEN /\ error' = "API Key missing"
       /\ UNCHANGED <<apiKey, isLiveConnected, isMicOn, avatarPose, isLoading, messages,
                      audioVars, sessionVars, transVars, idleTimeoutRef, timersPending,
                      dateNow, exchanges>>
  ELSE /\ LET s == IF isLiveConnected THEN disconnectLive(TeardownView)
                   ELSE TeardownView
          IN SetTeardownView([s EXCEPT !.avatarPose = THINKING_GHOST])
       /\ messages' = addMessage(messages, "user", text, TRUE, RandId(dateNow, messages))
       /\ isLoading' = TRUE
       /\ exchanges' = Append(exchanges, "text")
       /\ UNCHANGED <<apiKey, error, audioContextRef, now, chunkSeq, sessionPromiseRef, sentBlocks, transVars,
                      idleTimeoutRef, timersPending, dateNow>>

FallbackReply == <<0>>     \* "I'm not sure what to say."

\* The text request resolved (App.tsx 219-234): the reply is appended and
\* the speech request issued.
TextReplyResolved(i, reply) ==
  /\ i \in DOMAIN exchanges
  /\ exchanges[i] = "text"
  /\ messages' = addMessage(messages, "model",
                            IF reply # <<>> THEN reply ELSE FallbackReply,
                            TRUE, RandId(dateNow, messages))
  /\ exchanges' = [exchanges EXCEPT ![i] = "tts"]
  /\ UNCHANGED <<apiKey, isLiveConnected, isMicOn, avatarPose, error, isLoading,
                 audioVars, sessionVars, transVars, idleTimeoutRef, timersPending,
                 dateNow>>

\* Mutant of RequestRejected: the catch also tears the live session down.
RequestRejectedTearingDown(i, msg) ==
  /\ i \in DOMAIN exchanges
  /\ exchanges[i] \in {"text", "tts"}
  /\ error' = IF msg # "" THEN msg ELSE "Error generating response"
  /\ exchanges' = [exchanges EXCEPT ![i] = "done"]
  /\ isLoading' = FALSE
  /\ SetTeardownView(disconnectLive(TeardownView))
  /\ UNCHANGED <<apiKey, messages, audioContextRef, now, chunkSeq, sessionPromiseRef,
                 sentBlocks, transVars, idleTimeoutRef, timersPending, dateNow>>

\* Either request rejected: catch and finally (App.tsx 241-247).
RequestRejected(i, msg) ==
  /\ i \in DOMAIN exchanges
  /\ exchanges[i] \in {"text", "tts"}
  /\ error' = IF msg # "" THEN msg ELSE "Error generating response"
  /\ FinishExchange(i)
  /\ UNCHANGED <<apiKey, isLiveConnected, isMicOn, messages, audioVars, sessionVars,
                 transVars, idleTimeoutRef, timersPending, dateNow>>

\* The speech request resolved (App.tsx 236-239): with audio of duration
\* dur, handed to playAudioChunk and awaited, or without audio (dur = 0).
TtsResolved(i, dur) ==
  /\ i \in DOMAIN exchanges
  /\ exchanges[i] = "tts"
  /\ IF dur # 0
     THEN /\ audioContextRef' = "running"
          /\ chunkSeq' = chunkSeq + 1
          /\ pendingDecodes' =
               pendingDecodes \cup {Chunk(chunkSeq + 1, dur, i)}
          /\ exchanges' = [exchanges EXCEPT ![i] = "decode"]
          /\ UNCHANGED <<isLoading, avatarPose>>
     ELSE /\ FinishExchange(i)
          /\ UNCHANGED <<audioContextRef, chunkSeq, pendingDecodes>>
  /\ UNCHANGED <<apiKey, isLiveConnected, isMicOn, error, messages, nextStartTime,
                 audioSources, now, sessionVars, transVars,
                 idleTimeoutRef, timersPending, dateNow>>

\* ------------------------------------------------------- specifications
\* The environment of each specification: the user, the transport, the
\* decoder and the clocks, bounded.  The actions are those above in all of
\* them; a specification leaves out the events its bounds exclude.

\* connectLive is entered at most MaxAttempts times.
MicToggle(maxAttempts) ==
  /\ isMicOn \/ ~apiKey \/ Len(attempts) < maxAttempts
  /\ HandleMicToggle

\* Messages carrying audio and control flags only.
AudioMessages ==
  {m \in ServerMessages : m.out = <<>> /\ m.in = <<>> /\ ~m.turnComplete}

Deliver(k, m, maxChunks) ==
  /\ m.audio # 0 => chunkSeq < maxChunks
  /\ m.out # <<>> => m.out[1] = Len(currentOutputTrans) + 1
  /\ m.in # <<>> => m.in[1] = Len(currentInputTrans) + 1
  /\ OnMessage(k, m)
  /\ Len(messages') <= MaxMessages

\* The playback scheduler under one live session: audio chunks and
\* interrupts arrive, decodes complete in any order or fail, units end.
NextSched ==
  \/ MicToggle(MaxAttempts)
  \/ \E k \in DOMAIN attempts : GetUserMediaResolved(k)
  \/ \E k \in DOMAIN attempts : OnOpen(k)
  \/ \E k \in DOMAIN attempts, m \in AudioMessages : Deliver(k, m, MaxChunks)
  \/ \E c \in pendingDecodes : DecodeDone(c)
  \/ \E c \in pendingDecodes : DecodeFail(c)
  \/ \E u \in audioSources : Ended(u)
  \/ now < MaxTime /\ Tick
  \/ IdleTimerFires

SpecSched == Init /\ [][NextSched]_vars

\* Audio messages with chunks of one tick.
LifeMessages == {m \in AudioMessages : m.audio \in {0, 1}}

\* The session lifecycle: the user toggles the session and sends text, the
\* transport opens, fails, closes and delivers audio and interrupts, the
\* microphone delivers blocks, requests resolve or fail.
Next ==
  \/ MicToggle(MaxAttempts)
  \/ \E k \in DOMAIN attempts : GetUserMediaResolved(k)
  \/ \E k \in DOMAIN attempts : GetUserMediaRejected(k)
  \/ \E k \in DOMAIN attempts : OnOpen(k)
  \/ \E k \in DOMAIN attempts : OnClose(k)
  \/ \E k \in DOMAIN attempts : OnError(k)
  \/ \E k \in DOMAIN attempts, m \in LifeMessages : Deliver(k, m, LifeChunks)
  \/ \E k \in DOMAIN attempts, speaking \in BOOLEAN : AudioProcess(k, speaking)
  \/ \E c \in pendingDecodes : DecodeDone(c)
  \/ \E c \in pendingDecodes : DecodeFail(c)
  \/ \E u \in audioSources : Ended(u)
  \/ now < LifeTime /\ Tick
  \/ IdleTimerFires

Spec == Init /\ [][Next]_vars

\* Messages carrying transcription deltas and control flags only.
TransMessages == {m \in ServerMessages : m.audio = 0}

\* The transcript aggregation under one live session: deltas of both roles,
\* turn-complete and interrupted events arrive in any order.
NextTrans ==
  \/ MicToggle(MaxAttempts)
  \/ \E k \in DOMAIN attempts : GetUserMediaResolved(k)
  \/ \E k \in DOMAIN attempts : OnOpen(k)
  \/ \E k \in DOMAIN attempts, m \in TransMessages : Deliver(k, m, MaxChunks)
  \/ dateNow < MaxDate /\ DateTick

SpecTrans == Init /\ [][NextTrans]_vars

\* The text exchange beside one live session: the user sends text and
\* toggles the session, the two requests resolve or fail, the reply audio
\* is decoded and played.
NextText ==
  \/ MicToggle(MaxAttempts)
  \/ \E k \in DOMAIN attempts : GetUserMediaResolved(k)
  \/ \E k \in DOMAIN attempts : OnOpen(k)
  \/ Len(exchanges) < MaxExchanges /\ SendTextMessage(<<1>>)
  \/ \E i \in DOMAIN exchanges, reply \in {<<>>, <<1>>} : TextReplyResolved(i, reply)
  \/ \E i \in DOMAIN exchanges, msg \in ErrMessages : RequestRejected(i, msg)
  \/ \E i \in DOMAIN exchanges, dur \in {0} \cup Durs : TtsResolved(i, dur)
  \/ \E c \in pendingDecodes : DecodeDone(c)
  \/ \E c \in pendingDecodes : DecodeFail(c)
  \/ \E u \in audioSources : Ended(u)
  \/ now < LifeTime /\ Tick
  \/ IdleTimerFires

SpecText == Init /\ [][NextText]_vars

\* The user starts the live session once, and may stop it.
ToggleFirstSession ==
  /\ isMicOn \/ attempts = <<>>
  /\ HandleMicToggle

\* What sendTextMessage call i is suspended at settles: the text request or
\* the speech request resolves or is rejected, the decode of its reply audio
\* resolves or is rejected, and the continuation runs.
ExchangeSettles(i) ==
  \/ \E reply \in {<<>>, <<1>>} : TextReplyResolved(i, reply)
  \/ \E msg \in ErrMessages : RequestRejected(i, msg)
  \/ \E dur \in {0} \cup Durs : TtsResolved(i, dur)
  \/ \E c \in pendingDecodes : c.exch = i /\ (DecodeDone(c) \/ DecodeFail(c))

\* The text exchange beside the first live session, when every awaited
\* promise settles: an await of sendTextMessage is resumed by the event loop
\* once its promise has settled.
NextExchange ==
  \/ ToggleFirstSession
  \/ \E k \in DOMAIN attempts : GetUserMediaResolved(k)
  \/ \E k \in DOMAIN attempts : OnOpen(k)
  \/ Len(exchanges) < MaxExchanges /\ SendTextMessage(<<1>>)
  \/ \E i \in DOMAIN exchanges : ExchangeSettles(i)
  \/ \E u \in audioSources : Ended(u)
  \/ now < LifeTime /\ Tick
  \/ IdleTimerFires

SpecExchange ==
  /\ Init
  /\ [][NextExchange]_vars
  /\ \A i \in 1..MaxExchanges : WF_vars(ExchangeSettles(i))

\* Messages carrying one thing each: a delta of one role, a turn-complete or
\* an interrupted flag.
SingleMessages ==
  {m \in TransMessages :
     Cardinality({f \in {"out", "in"} : m[f] # <<>>}
                 \cup {f \in {"turnComplete", "interrupted"} : m[f]}) = 1}

\* The message list under the first live session and the text exchange:
\* deltas, turn-complete and interrupted events arrive one per message, the
\* user sends text and the reply arrives or the request fails.
NextList ==
  \/ ToggleFirstSession
  \/ \E k \in DOMAIN attempts : GetUserMediaResolved(k)
  \/ \E k \in DOMAIN attempts : OnOpen(k)
  \/ \E k \in DOMAIN attempts, m \in SingleMessages : Deliver(k, m, MaxChunks)
  \/ /\ Len(exchanges) < MaxExchanges
     /\ Len(messages) < MaxMessages
     /\ SendTextMessage(<<1>>)
  \/ \E i \in DOMAIN exchanges :
       Len(messages) < MaxMessages /\ TextReplyResolved(i, <<1>>)
  \/ \E i \in DOMAIN exchanges, msg \in ErrMessages : RequestRejected(i, msg)
  \/ \E i \in DOMAIN exchanges : TtsResolved(i, 0)

SpecList == Init /\ [][NextList]_vars

\* Playback under the first live session: audio chunks and interrupts
\* arrive, decodes complete in any order or fail, units end, the user may
\* stop the session.
NextPlay ==
  \/ ToggleFirstSession
  \/ \E k \in DOMAIN attempts : GetUserMediaResolved(k)
  \/ \E k \in DOMAIN attempts : OnOpen(k)
  \/ \E k \in DOMAIN attempts, m \in AudioMessages : Deliver(k, m, MaxChunks)
  \/ \E c \in pendingDecodes : DecodeDone(c)
  \/ \E c \in pendingDecodes : DecodeFail(c)
  \/ \E u \in audioSources : Ended(u)
  \/ now < MaxTime /\ Tick

SpecPlay == Init /\ [][NextPlay]_vars

\* Starting again: the mic button of Chat stays enabled while a start is
\* in progress, and a channel the component no longer tracks can still fail
\* or close, so that up to TwoAttempts calls of connectLive overlap.
NextRestart ==
  \/ MicToggle(TwoAttempts)
  \/ \E k \in DOMAIN attempts : GetUserMediaResolved(k)
  \/ \E k \in DOMAIN attempts : GetUserMediaRejected(k)
  \/ \E k \in DOMAIN attempts : OnOpen(k)
  \/ \E k \in DOMAIN attempts : OnClose(k)
  \/ \E k \in DOMAIN attempts : OnError(k)
  \/ \E k \in DOMAIN attempts, speaking \in BOOLEAN : AudioProcess(k, speaking)

SpecRestart == Init /\ [][NextRestart]_vars

\* Voice activity under the first live session: the microphone delivers
\* blocks of samples while the model's audio arrives and plays, the idle
\* timer fires, the session opens, fails, closes or is stopped.
NextVad ==
  \/ ToggleFirstSession
  \/ \E k \in DOMAIN attempts : GetUserMediaResolved(k)
  \/ \E k \in DOMAIN attempts : GetUserMediaRejected(k)
  \/ \E k \in DOMAIN attempts : OnOpen(k)
  \/ \E k \in DOMAIN attempts : OnClose(k)
  \/ \E k \in DOMAIN attempts : OnError(k)
  \/ \E k \in DOMAIN attempts, m \in LifeMessages : Deliver(k, m, LifeChunks)
  \/ \E k \in DOMAIN attempts, inputData \in Blocks : onaudioprocess(k, inputData)
  \/ \E c \in pendingDecodes : DecodeDone(c)
  \/ \E c \in pendingDecodes : DecodeFail(c)
  \/ \E u \in audioSources : Ended(u)
  \/ now < LifeTime /\ Tick
  \/ IdleTimerFires

SpecVad == Init /\ [][NextVad]_vars

\* ---------------------------------------------------------------- claims
IsOpen(msg) == ~msg.isFinal
OpenOf(role) == {i \in DOMAIN messages : messages[i].role = role /\ IsOpen(messages[i])}
TurnCompleteMessage ==
  [audio |-> 0, out |-> <<>>, in |-> <<>>, turnComplete |-> TRUE, interrupted |-> FALSE]
Starting == \E k \in DOMAIN attempts : attempts[k].pc \in {"gum", "connecting"}
ChannelOpen == \E k \in DOMAIN attempts : attempts[k].pc = "open"
ExchangeInProgress == \E i \in DOMAIN exchanges : exchanges[i] # "done"

\* C1: once an interrupted event has been handled, no chunk that arrived
\* before it (scheduled, or still being decoded) is in the active set: none
\* of them is scheduled for playback afterwards.
C1_InterruptCancelsEarlierChunks ==
  \A u \in audioSources : u.stale # "interrupted"

\* C2: chunks are scheduled in arrival order: of two chunks that arrived
\* with no cancel since, the one that arrived first is given its start time
\* first (it is not still being decoded when the other is scheduled) and
\* starts no later than the other.
C2_ScheduledInArrivalOrder ==
  /\ \A c \in pendingDecodes, v \in audioSources :
       (c.stale = "no" /\ v.stale = "no") => v.seq < c.seq
  /\ \A u, v \in audioSources :
       (u.stale = "no" /\ v.stale = "no" /\ u.seq < v.seq) => u.start <= v.start

\* C3: between two resets of the clock the scheduled units never overlap and
\* start times do not decrease: nextStartTime is the end of the unit
\* scheduled last, no active unit ends after it, and a unit being scheduled
\* starts no earlier than it, and exactly at it when the clock has not passed
\* it at the time of the enqueue.
C3_NoOverlapNoGap ==
  /\ [](/\ \A u, v \in audioSources :
             u # v => (u.end <= v.start \/ v.end <= u.start)
        /\ \A u \in audioSources : u.end <= nextStartTime)
  /\ [][\A u \in audioSources' \ audioSources :
          /\ u.start >= nextStartTime
          /\ nextStartTime >= now => u.start = nextStartTime
          /\ nextStartTime' = u.end]_vars

\* Two units laid end to end, the second enqueued while the first was ahead
\* of the clock.
C3_Witness ==
  /\ Cardinality(audioSources) = 2
  /\ \E u, v \in audioSources :
       u.seq < v.seq /\ u.end > 0 /\ v.start = u.end /\ now < v.start

\* C4: a turn-complete event that arrives while both roles have an open
\* message finalizes both messages and leaves both buffers empty.
C4_TurnCompleteFinalizesBoth ==
  [][(/\ OpenOf("user") # {}
      /\ OpenOf("model") # {}
      /\ \E k \in DOMAIN attempts : OnMessage(k, TurnCompleteMessage))
     => (/\ \A i \in DOMAIN messages : messages'[i].isFinal
         /\ currentInputTrans' = <<>>
         /\ currentOutputTrans' = <<>>)]_vars

\* C5: the list holds at most one open message per role, and an open
\* message is the last message of its role.
C5_OneOpenMessagePerRole ==
  \A role \in Roles :
    /\ Cardinality(OpenOf(role)) <= 1
    /\ \A i \in OpenOf(role) :
         \A j \in DOMAIN messages : messages[j].role = role => j <= i

\* C6: after disconnectLive has run, no inbound event of a session that
\* existed then schedules audio or changes the message list or the pose.
C6_NoEventAfterStop ==
  [][\A k \in DOMAIN attempts, m \in ServerMessages :
       (attempts[k].torn /\ OnMessage(k, m))
       => (/\ pendingDecodes' = pendingDecodes
           /\ audioSources' = audioSources
           /\ messages' = messages
           /\ avatarPose' = avatarPose)]_vars

\* C7: when the system is idle (not connected, no start in progress) no
\* capture stream or processor is held and no channel is open.
C7_IdleHoldsNothing ==
  (~isLiveConnected /\ ~Starting)
  => (streamRef = 0 /\ scriptProcessorRef = 0 /\ ~ChannelOpen)

\* C8: no text exchange is in progress while a streaming session is
\* connecting or connected.
C8_ExchangeExcludesSession ==
  ~(ExchangeInProgress /\ (isLiveConnected \/ Starting))

\* C9: after a fatal error (getUserMedia rejected, or an error reported by
\* the transport while opening or open) the system is not connected, not
\* loading, and an error string is set.
C9_FatalErrorLeavesIdle ==
  [][(\E k \in DOMAIN attempts : GetUserMediaRejected(k) \/ OnError(k))
     => (~isLiveConnected' /\ ~isLoading' /\ error' # Null /\ error' # "")]_vars

C11_TeardownDuringStart ==
  [][\A k \in DOMAIN attempts :
       (attempts[k].torn /\ OnOpen(k))
       => (/\ streamRef' = 0
           /\ scriptProcessorRef' = 0
           /\ attempts'[k].pc # "open"
           /\ ~isLiveConnected')]_vars

C13_InterruptDiscardsPartial ==
  [][\A k \in DOMAIN attempts, m \in ServerMessages :
       (m.interrupted /\ OnMessage(k, m))
       => (/\ currentOutputTrans' = <<>>
           /\ \A i \in OpenOf("model") : ~messages'[i].isFinal)]_vars

OpenIn(msgs, role) == {i \in DOMAIN msgs : msgs[i].role = role /\ IsOpen(msgs[i])}

\* C14: a model delta that follows earlier model deltas, with no
\* turn-complete or interrupt since the first of them, is appended to the one
\* open model message: that message keeps its id, stays the only open model
\* message and its text becomes the concatenation of the deltas.
C14_DeltasExtendOneMessage ==
  [][\A k \in DOMAIN attempts, m \in ServerMessages :
       (/\ m.out # <<>>
        /\ ~m.turnComplete
        /\ ~m.interrupted
        /\ currentOutputTrans # <<>>
        /\ OnMessage(k, m))
       => \E i \in OpenOf("model") :
            /\ OpenIn(messages', "model") = {i}
            /\ messages'[i].id = messages[i].id
            /\ messages'[i].text = currentOutputTrans \o m.out]_vars

\* C15: a finalized message is immutable: in every step a message that is
\* final keeps its place, id, role, text and isFinal.
C15_FinalIsImmutable ==
  [][\A i \in DOMAIN messages :
       messages[i].isFinal
       => (i \in DOMAIN messages' /\ messages'[i] = messages[i])]_vars

\* A finalized live message of two deltas, and after it a later message of
\* the same role: deltas and finalizations have run past the final message.
C15_Witness ==
  \E i, j \in DOMAIN messages :
    /\ i < j
    /\ messages[i].isFinal
    /\ messages[i].id.r = 0
    /\ Len(messages[i].text) = 2
    /\ messages[j].role = messages[i].role

\* C16: the message list is append-only and ordered by creation: in every
\* step each message keeps its position, id and role, and new messages come
\* after all the existing ones.
C16_AppendOnly ==
  [][/\ Len(messages') >= Len(messages)
     /\ \A i \in DOMAIN messages :
          /\ messages'[i].id = messages[i].id
          /\ messages'[i].role = messages[i].role]_vars

\* A list built by all three writers: a message of the text exchange, then a
\* live message grown in place, then another message.
C16_Witness ==
  /\ Len(messages) = 3
  /\ messages[1].id.r > 0
  /\ messages[2].id.r = 0
  /\ Len(messages[2].text) = 2

\* C17: finalization is idempotent: a turn-complete event handled while both
\* transcript buffers are empty changes nothing (message list, buffers,
\* audio state), and a second turn-complete event right after a first
\* changes nothing.
C17_FinalizeIdempotent ==
  /\ [](LET once == onmessage(MessageView, TurnCompleteMessage, dateNow)
        IN /\ (currentInputTrans = <<>> /\ currentOutputTrans = <<>>)
                => once = MessageView
           /\ onmessage(once, TurnCompleteMessage, dateNow) = once)
  /\ [][\A k \in DOMAIN attempts :
          (/\ currentInputTrans = <<>>
           /\ currentOutputTrans = <<>>
           /\ OnMessage(k, TurnCompleteMessage))
          => UNCHANGED <<messages, transVars, audioSources, nextStartTime,
                         pendingDecodes>>]_vars

\* After an interrupt the model message is still open and last in the list
\* while both buffers are empty, and an earlier turn has been finalized: a
\* turn-complete event now finds nothing to finalize.
C17_Witness ==
  /\ currentInputTrans = <<>>
  /\ currentOutputTrans = <<>>
  /\ Len(messages) >= 2
  /\ IsOpen(messages[Len(messages)])
  /\ \E i \in DOMAIN messages : messages[i].isFinal /\ messages[i].id.r = 0

\* C18: when the start of attempt k fails, at getUserMedia or while its
\* channel is opening, an error is surfaced and the capture stream and the
\* processor acquired by k are released.
C18_FailedStartReleases ==
  [][\A k \in DOMAIN attempts :
       (\/ GetUserMediaRejected(k)
        \/ attempts[k].pc = "connecting" /\ OnError(k))
       => (/\ error' # Null
           /\ error' # ""
           /\ attempts'[k].stream # "live"
           /\ attempts'[k].proc # "connected")]_vars

\* C19: a decode failure drops only the failing chunk: the step leaves
\* nextStartTime and the active set as they were and takes only that chunk
\* out of the pending decodes, so that a chunk scheduled afterwards gets the
\* start time it would have got had the failing chunk never arrived.
C19_DecodeFailureDropsOnlyChunk ==
  [][\A c \in pendingDecodes :
       DecodeFail(c)
       => (/\ nextStartTime' = nextStartTime
           /\ audioSources' = audioSources
           /\ pendingDecodes' = pendingDecodes \ {c}
           /\ ScheduleStart(now', nextStartTime') = ScheduleStart(now, nextStartTime))]_vars

\* The first chunk is scheduled and ahead of the clock, the second chunk is
\* neither pending nor scheduled and no cancel has run: its decode failed.
C19_Witness ==
  /\ chunkSeq = 2
  /\ pendingDecodes = {}
  /\ nextStartTime > now
  /\ \E u \in audioSources :
       /\ audioSources = {u}
       /\ u.seq = 1
       /\ u.stale = "no"
       /\ u.start = 0
       /\ nextStartTime = u.end

\* C20: at most one idle timer is pending at any time, and a pending timer
\* is the one idleTimeoutRef holds, the most recently armed.
C20_OneIdleTimer ==
  /\ timersPending <= 1
  /\ timersPending = 1 <=> idleTimeoutRef = "pending"

\* The timer was armed by a scheduled chunk and armed again by a loud
\* microphone block while that chunk is still in the active set.
C20_Witness ==
  /\ timersPending = 1
  /\ audioSources # {}
  /\ avatarPose = LISTENING_SIDE

\* C21: nextStartTime never decreases in a step, except when stopAllAudio
\* resets it to 0 and empties the active set.
C21_ClockMonotone ==
  [][\/ nextStartTime' >= nextStartTime
     \/ nextStartTime' = 0 /\ audioSources' = {}]_vars

\* A chunk that was being decoded when the clock was reset has since been
\* scheduled, at a time after 0: the clock was reset and moved forward again.
C21_Witness ==
  \E u \in audioSources :
    /\ u.stale # "no"
    /\ u.start = now
    /\ now > 0
    /\ nextStartTime = u.end

\* The state right after a teardown: nothing scheduled, the clock at 0, the
\* held stream and processor released and their handles cleared, not
\* connected, neutral pose.
TornDown ==
  /\ audioSources' = {}
  /\ nextStartTime' = 0
  /\ streamRef' = 0
  /\ scriptProcessorRef' = 0
  /\ streamRef # 0 => attempts'[streamRef].stream = "stopped"
  /\ scriptProcessorRef # 0 => attempts'[scriptProcessorRef].proc = "disconnected"
  /\ ~isLiveConnected'
  /\ ~isMicOn'
  /\ avatarPose' = IDLE_FRONT

\* C22: an explicit stop and a channel error perform the same teardown, and
\* the channel error also leaves the error string set.
C22_StopAndErrorTearDownAlike ==
  [][/\ DisconnectLive => TornDown
     /\ \A k \in DOMAIN attempts :
          OnError(k) => (TornDown /\ error' = "Live session disconnected.")]_vars

\* A channel error was handled while the session held its stream and a chunk
\* was being decoded.
C22_Witness ==
  /\ \E k \in DOMAIN attempts :
       attempts[k].pc = "closing" /\ attempts[k].stream = "stopped"
  /\ error = "Live session disconnected."
  /\ ~isLiveConnected
  /\ audioSources = {}
  /\ \E c \in pendingDecodes : c.stale = "cancelled"

\* C23: the failure of the text or the speech request of an exchange is
\* reported as an error string and leaves the connection flag, the capture
\* handles and resources, the playback clock and the active set as they were.
C23_RequestFailureIsScoped ==
  [][\A i \in DOMAIN exchanges, msg \in ErrMessages :
       RequestRejected(i, msg)
       => (/\ error' # Null
           /\ error' # ""
           /\ UNCHANGED <<isLiveConnected, isMicOn, streamRef, scriptProcessorRef,
                          attempts, nextStartTime, audioSources>>)]_vars

\* A request of an exchange failed while the live session was connected and
\* held its stream: the session is still connected afterwards.
C23_Witness ==
  /\ \E i \in DOMAIN exchanges : exchanges[i] = "done"
  /\ error \in {"quota exceeded", "Error generating response"}
  /\ isLiveConnected
  /\ streamRef # 0
  /\ attempts[streamRef].stream = "live"

\* C24: the capture loop transmits only while connected: a block captured
\* while the connection flag is false (before the channel is acknowledged
\* open, or after teardown) is not sent on an open session.
C24_NoBlockSentUnlessConnected ==
  [][\A k \in DOMAIN attempts, speaking \in BOOLEAN :
       (AudioProcess(k, speaking) /\ ~isLiveConnected)
       => ~(sessionPromiseRef # 0 /\ attempts[sessionPromiseRef].pc = "open")]_vars

\* nextStartTime after the first k chunks of durations ds are enqueued at
\* clock time t, starting from nextStartTime nst (App.tsx 156-162, repeated).
RECURSIVE PlannedNext(_, _, _, _)
PlannedNext(t, nst, ds, k) ==
  IF k = 0 THEN nst
  ELSE ScheduleStart(t, PlannedNext(t, nst, ds, k - 1)) + ds[k]

PlannedStart(t, nst, ds, k) == ScheduleStart(t, PlannedNext(t, nst, ds, k - 1))

RECURSIVE SumTo(_, _)
SumTo(ds, k) == IF k = 0 THEN 0 ELSE SumTo(ds, k - 1) + ds[k]

RECURSIVE TotalDur(_)
TotalDur(S) ==
  IF S = {} THEN 0
  ELSE LET u == CHOOSE v \in S : TRUE
       IN (u.end - u.start) + TotalDur(S \ {u})

DurSeqs == UNION {[1..n -> Durs] : n \in 1..(MaxChunks + 1)}

\* C25: chunks enqueued at the same instant t0 with nextStartTime not ahead
\* of t0 are laid end to end from t0: unit k starts at t0 plus the durations
\* of the units before it and nextStartTime ends at t0 plus all durations.
\* Checked for every sequence of durations from the current state, and on
\* the units the program has scheduled while the clock stood at 0.
C25_StartsAreCumulativeSums ==
  /\ nextStartTime <= now
       => \A ds \in DurSeqs :
            /\ \A k \in DOMAIN ds :
                 PlannedStart(now, nextStartTime, ds, k) = now + SumTo(ds, k - 1)
            /\ PlannedNext(now, nextStartTime, ds, Len(ds)) = now + SumTo(ds, Len(ds))
  /\ now = 0
       => /\ \A u \in audioSources :
               u.start = TotalDur({v \in audioSources : v.start < u.start})
          /\ audioSources # {} => nextStartTime = TotalDur(audioSources)

\* Two chunks of different durations enqueued at instant 0: the second
\* starts where the first ends and nextStartTime is the sum of both.
C25_Witness ==
  /\ now = 0
  /\ \E u, v \in audioSources :
       /\ u.start = 0
       /\ v.start = u.end
       /\ (v.end - v.start) # (u.end - u.start)
       /\ nextStartTime = (u.end - u.start) + (v.end - v.start)

\* C26: message ids are pairwise distinct in every reachable state.
C26_IdsDistinct ==
  \A i, j \in DOMAIN messages : i # j => messages[i].id # messages[j].id

ModelDelta(d) ==
  [audio |-> 0, out |-> <<d>>, in |-> <<>>, turnComplete |-> FALSE, interrupted |-> FALSE]

\* C27: when the output buffer is empty while a model message is still open
\* (an interrupt discarded the buffer), the next model delta opens a new
\* message with a new id and that delta as its text, and leaves every
\* message of the list, the interrupted one included, as it was.
C27_DeltaAfterInterruptOpensNew ==
  [][\A k \in DOMAIN attempts, d \in Deltas :
       (/\ OpenOf("model") # {}
        /\ currentOutputTrans = <<>>
        /\ OnMessage(k, ModelDelta(d)))
       => (/\ Len(messages') = Len(messages) + 1
           /\ \A i \in DOMAIN messages : messages'[i] = messages[i]
           /\ messages'[Len(messages')].text = <<d>>
           /\ \A i \in DOMAIN messages :
                messages[i].id # messages'[Len(messages')].id)]_vars

\* C28: when a session ends, by an explicit stop, a channel error or the
\* transport closing the channel, both transcript buffers are empty
\* afterwards.
C28_BuffersEmptyAfterSession ==
  [][(\/ DisconnectLive
      \/ \E k \in DOMAIN attempts : OnError(k) \/ OnClose(k))
     => (currentInputTrans' = <<>> /\ currentOutputTrans' = <<>>)]_vars

\* C29: at most one capture stream is live and at most one channel is
\* opening or open among the attempts no teardown has passed over: a start
\* issued while an earlier start is in progress or connected acquires no
\* second device and opens no second channel.
C29_OneStreamOneSession ==
  /\ Cardinality({k \in DOMAIN attempts : attempts[k].stream = "live"}) <= 1
  /\ Cardinality({k \in DOMAIN attempts :
                    ~attempts[k].torn /\ attempts[k].pc \in {"connecting", "open"}}) <= 1

\* C30: whenever isLiveConnected is true, streamRef and scriptProcessorRef
\* are non-null and the stream and processor they hold are in use.
C30_ConnectedHoldsCapture ==
  isLiveConnected
  => (/\ streamRef # 0
      /\ scriptProcessorRef # 0
      /\ attempts[streamRef].stream = "live"
      /\ attempts[scriptProcessorRef].proc = "connected")

\* C31: in a connected session, whenever the pose is listening an idle
\* timer is pending (the one that returns the pose to neutral), whether the
\* pose was set by a speaking block or by an interrupted event.
C31_ListeningHasTimer ==
  (isLiveConnected /\ avatarPose = LISTENING_SIDE)
  => (timersPending >= 1 /\ idleTimeoutRef = "pending")

\* A server message carrying the interrupted flag and nothing else.
InterruptedMessage ==
  [audio |-> 0, out |-> <<>>, in |-> <<>>, turnComplete |-> FALSE, interrupted |-> TRUE]

UserMessages(msgs) == SelectSeq(msgs, LAMBDA msg : msg.role = "user")

\* C32: handling an interrupted event sets the pose to listening and leaves
\* the user's transcript buffer, the user's messages, the connection flag
\* and the capture resources (stream, processor, their handles) unchanged.
C32_InterruptLeavesUserSide ==
  [][\A k \in DOMAIN attempts :
       OnMessage(k, InterruptedMessage)
       => (/\ avatarPose' = LISTENING_SIDE
           /\ currentInputTrans' = currentInputTrans
           /\ UserMessages(messages') = UserMessages(messages)
           /\ UNCHANGED <<isLiveConnected, isMicOn, streamRef, scriptProcessorRef,
                          sessionPromiseRef, attempts>>)]_vars

\* An interrupted event was handled while the user's buffer held text: the
\* open model message is last and its buffer is empty, the user's open
\* message still shows the buffer, the session is connected and capturing.
C32_Witness ==
  /\ avatarPose = LISTENING_SIDE
  /\ isLiveConnected
  /\ streamRef # 0
  /\ attempts[streamRef].stream = "live"
  /\ currentInputTrans # <<>>
  /\ currentOutputTrans = <<>>
  /\ Len(messages) >= 2
  /\ messages[Len(messages)].role = "model"
  /\ IsOpen(messages[Len(messages)])
  /\ \E i \in OpenOf("user") : messages[i].text = currentInputTrans

\* C33: the natural completion of a scheduled unit removes exactly that
\* unit from the active set and changes nothing else: nextStartTime, the
\* other units, the pose and the message list stay, and no unit is started
\* (none joins the active set, no pending decode is taken up).
C33_CompletionOnlyRemovesUnit ==
  [][\A u \in audioSources :
       Ended(u)
       => (/\ audioSources' = audioSources \ {u}
           /\ UNCHANGED <<nextStartTime, avatarPose, messages, pendingDecodes,
                          chunkSeq, idleTimeoutRef, timersPending>>)]_vars

\* Every unit scheduled since the last cancel has played to its end and left
\* the active set: the set is empty while the clock still points at the end
\* of the last unit (a cancel would have reset it to 0).
C33_Witness ==
  /\ isLiveConnected
  /\ chunkSeq >= 1
  /\ audioSources = {}
  /\ pendingDecodes = {}
  /\ nextStartTime > 0
  /\ nextStartTime <= now

\* The messages of a role appended by addMessage (their ids carry the
\* Math.random() suffix).
Sent(msgs, role) ==
  {i \in DOMAIN msgs : msgs[i].role = role /\ msgs[i].id.r > 0}

AppendsOne(role) ==
  /\ Len(messages') = Len(messages) + 1
  /\ \A j \in DOMAIN messages : messages'[j] = messages[j]
  /\ messages'[Len(messages')].role = role
  /\ messages'[Len(messages')].isFinal
  /\ messages'[Len(messages')].id.r > 0

\* The chunks of reply audio among pending decodes, by arrival number.
ExchangeAudio(pending) == {c.seq : c \in {d \in pending : d.exch # 0}}

\* C34: a non-streaming exchange appends exactly one final user message when
\* it starts and exactly one final model message when its text request
\* resolves, the model message after the user message; its reply audio is
\* enqueued only after that, in a step of its own; when the text request
\* fails the exchange ends with no model message appended and no audio
\* enqueued, and an ended exchange appends and enqueues nothing more.
C34_ExchangeOrder ==
  /\ [](/\ Cardinality(Sent(messages, "user")) = Len(exchanges)
        /\ \A b \in Sent(messages, "model") :
             /\ messages[b].isFinal
             /\ Cardinality({a \in Sent(messages, "user") : a < b})
                  >= Cardinality({a \in Sent(messages, "model") : a <= b})
        /\ \A c \in pendingDecodes :
             c.exch # 0 => (/\ exchanges[c.exch] = "decode"
                            /\ Sent(messages, "model") # {}))
  /\ [][/\ \A i \in DOMAIN exchanges' \ DOMAIN exchanges :
             /\ AppendsOne("user")
             /\ ExchangeAudio(pendingDecodes') = ExchangeAudio(pendingDecodes)
        /\ \A i \in DOMAIN exchanges :
             exchanges'[i] # exchanges[i]
             => /\ <<exchanges[i], exchanges'[i]>> \in
                     {<<"text", "tts">>, <<"text", "done">>, <<"tts", "decode">>,
                      <<"tts", "done">>, <<"decode", "done">>}
                /\ IF exchanges[i] = "text" /\ exchanges'[i] = "tts"
                   THEN AppendsOne("model")
                   ELSE messages' = messages
                /\ IF exchanges[i] = "tts" /\ exchanges'[i] = "decode"
                   THEN /\ ExchangeAudio(pendingDecodes) \subseteq ExchangeAudio(pendingDecodes')
                        /\ Cardinality(ExchangeAudio(pendingDecodes'))
                             = Cardinality(ExchangeAudio(pendingDecodes)) + 1
                   ELSE ExchangeAudio(pendingDecodes') \subseteq ExchangeAudio(pendingDecodes)
        /\ exchanges' = exchanges
           => (/\ Sent(messages', "user") = Sent(messages, "user")
               /\ Sent(messages', "model") = Sent(messages, "model")
               /\ ExchangeAudio(pendingDecodes') \subseteq ExchangeAudio(pendingDecodes))]_vars

\* A successful exchange: the user message, then the model message, both
\* final, and the reply audio handed to the decoder.
C34_Witness ==
  /\ Len(exchanges) >= 1
  /\ exchanges[1] = "decode"
  /\ Len(messages) = 2
  /\ messages[1].role = "user" /\ messages[1].isFinal /\ messages[1].id.r > 0
  /\ messages[2].role = "model" /\ messages[2].isFinal /\ messages[2].id.r > 0
  /\ \E c \in pendingDecodes : c.exch = 1

\* C35: every sendTextMessage call that passed the API-key check comes to
\* its end, and the step that ends it leaves isLoading false and the pose
\* neutral, whichever of its requests succeeded or failed.
C35_ExchangeTerminates ==
  /\ \A i \in 1..MaxExchanges :
       (i \in DOMAIN exchanges) ~> (i \in DOMAIN exchanges /\ exchanges[i] = "done")
  /\ [][\A i \in DOMAIN exchanges :
          (exchanges[i] # "done" /\ exchanges'[i] = "done")
          => (~isLoading' /\ avatarPose' = IDLE_FRONT)]_vars

\* An exchange ended by a failed request while the thinking pose was shown:
\* the error is set, the model message is missing, loading is over and the
\* pose is neutral.
C35_Witness ==
  /\ Len(exchanges) >= 1
  /\ exchanges[1] = "done"
  /\ error \in {"quota exceeded", "Error generating response"}
  /\ Sent(messages, "model") = {}
  /\ ~isLoading
  /\ avatarPose = IDLE_FRONT

\* C36: voice activity is evaluated per block and without memory: a block
\* whose mean square exceeds the square of the threshold sets the pose to
\* listening and restarts the idle timer, any other block leaves the pose
\* and the idle timer as they are, whatever the blocks before it were.
C36_VadPerBlock ==
  [][\A k \in DOMAIN attempts, inputData \in Blocks :
       onaudioprocess(k, inputData)
       => IF SumSquares(inputData, BlockLen) > 4 * BlockLen
          THEN /\ avatarPose' = LISTENING_SIDE
               /\ idleTimeoutRef' = "pending"
               /\ timersPending' = resetIdleTimer(idleTimeoutRef, timersPending)
          ELSE UNCHANGED <<avatarPose, idleTimeoutRef, timersPending>>]_vars

\* A loud block was captured in the connected session while a unit of the
\* model's audio is in the active set (no interrupted event since): the
\* pose is listening and the idle timer is armed.
C36_Witness ==
  /\ isLiveConnected
  /\ avatarPose = LISTENING_SIDE
  /\ audioSources # {}
  /\ idleTimeoutRef = "pending"
  /\ timersPending = 1
  /\ sentBlocks[1] = "sent"

====
